---- MODULE Spec2Model ----
(***************************************************************************)
(* The chat timeline of frontend/src/components/ChatTerminal.jsx: the      *)
(* `messages` store and its upsert, the polling fetcher with its cursor,   *)
(* and the optimistic submission handler.  Events are records whose        *)
(* fields are the JavaScript object's own properties; a property that is   *)
(* undefined is a field the record does not have.                          *)
(***************************************************************************)
EXTENDS Integers, Sequences, FiniteSets, Bags, TLC

VARIABLES
    messages,        \* useState([]): the timeline store, an array of events
    isLoading,       \* useState(false): a submission is awaiting its response
    historyError,    \* useState(null): <<>> is null, <<e>> an error message
    isAuthenticated, \* useState(false)
    abortRef,        \* useRef(false)
    lastFetchTimeRef,\* useRef(null): <<>> is null, <<t>> the ISO string of t
    polls,           \* requests of fetchAgentResponses awaiting their response
    lastUrl,         \* the `since` parameter of the request sent last
    sub,             \* the request of handleSubmit awaiting its response
    now,             \* the client's clock (new Date(), Date.now())
    lastOp,          \* history: the handler that last set the store, the
                     \* cursor or the error flag
    ackRace          \* history: the last acknowledgement whose message_id a
                     \* poll had already put in the store

vars == <<messages, isLoading, historyError, isAuthenticated, abortRef,
          lastFetchTimeRef, polls, lastUrl, sub, now, lastOp, ackRace>>

-----------------------------------------------------------------------------
(* Bounds of the model *)

\* the clock runs from 1 to MaxTime
MaxTime == 2
\* the retention window: slice(-50) in the source, scaled down
KeepLast == 3
\* poll requests that may await a response at the same time
MaxInFlight == 2

-----------------------------------------------------------------------------
(* Values *)

Null == <<>>

Has(r, f) == f \in DOMAIN r

\* ids: <<"srv", n>> of an agent's event and <<"msg", t>> of the user message
\* sent at t, both assigned by the backend; <<"user", t>>, <<"thinking", t>>
\* and <<"error", t>> built from Date.now()
SrvId(n) == <<"srv", n>>
MsgId(t) == <<"msg", t>>

\* The raw items the backend puts in a response of GET /chat/agent-responses:
\* an event of task 1, an event without task, and an item without id
RawItem(n) ==
    CASE n = 1 -> [id |-> SrvId(1), message |-> "a", timestamp |-> 1, task_id |-> 1]
      [] n = 2 -> [id |-> SrvId(2), message |-> "a", timestamp |-> 2]
      [] n = 3 -> [message |-> "a", timestamp |-> 1]

\* The response bodies: their `messages` arrays
RawBatches ==
    { <<>>, <<RawItem(3)>>, <<RawItem(1)>>, <<RawItem(2)>>,
      <<RawItem(1), RawItem(2)>>, <<RawItem(2), RawItem(1)>>,
      <<RawItem(3), RawItem(2)>> }

\* The item the backend returns for the user message sent at t
MsgItem(t) == [id |-> MsgId(t), message |-> "task", timestamp |-> t]

\* The JSON bodies of POST /chat/send for the message sent at t: the backend
\* gives every message its own message_id
SendBodies(t) ==
    { [message_id |-> MsgId(t), task_id |-> 1],
      [detail |-> "rejected"] }

-----------------------------------------------------------------------------
(* utils/chatUtils.js *)

\* ensureDate(val): the date of a value that has one, else new Date()
ensureDate(r, clock) == IF Has(r, "timestamp") THEN r.timestamp ELSE clock

\* a normalizer that makes an event of every item, an item without id too
buildAgentMessageOfAll(item, clock) ==
    [id |-> IF Has(item, "id") THEN item.id ELSE <<"srv", 0>>,
     sender |-> "agent", text |-> item.message,
     timestamp |-> ensureDate(item, clock)]

\* buildAgentMessage(item): Null for an item without id
buildAgentMessage(item, clock) ==
    IF ~Has(item, "id") THEN Null
    ELSE LET base == [id |-> item.id, sender |-> "agent", text |-> item.message,
                      timestamp |-> ensureDate(item, clock)]
         IN IF Has(item, "task_id")
            THEN [f \in DOMAIN base \cup {"taskId"} |->
                     IF f = "taskId" THEN item.task_id ELSE base[f]]
            ELSE base

\* data.messages.map(buildAgentMessage).filter(Boolean)
RECURSIVE Normalize(_, _)
Normalize(raw, clock) ==
    IF raw = <<>> THEN <<>>
    ELSE LET m == buildAgentMessage(Head(raw), clock)
         IN (IF m = Null THEN <<>> ELSE <<m>>) \o Normalize(Tail(raw), clock)

-----------------------------------------------------------------------------
(* upsertMessages *)

Ids(s) == { s[i].id : i \in DOMAIN s }

\* a set that puts every value last, its key in the map or not
MapSetAppends(map, rec) == Append(map, rec)

\* Map.prototype.set on an insertion-ordered map held as a sequence: an
\* existing key keeps its place and takes the value, a new key goes last
MapSet(map, rec) ==
    IF \E i \in DOMAIN map : map[i].id = rec.id
    THEN [i \in DOMAIN map |-> IF map[i].id = rec.id THEN rec ELSE map[i]]
    ELSE Append(map, rec)

\* a store read without the Map: entries with the same id stay apart
MapOfKeepsDuplicates(prev) == prev

\* new Map(prev.map((msg) => [msg.id, msg]))
RECURSIVE MapOf(_)
MapOf(prev) ==
    IF prev = <<>> THEN <<>>
    ELSE MapSet(MapOf(SubSeq(prev, 1, Len(prev) - 1)), prev[Len(prev)])

MapGet(map, id) == CHOOSE m \in { map[i] : i \in DOMAIN map } : m.id = id

\* parseInt(msg.taskId) || 0
TaskKey(m) == IF Has(m, "taskId") THEN m.taskId ELSE 0

\* a forEach body that stamps an unseen event with the client's time only
\* when the event has no usable timestamp of its own
UpsertOneKeepsServerTime(map, msg, restampNew, clock) ==
    IF ~Has(msg, "id") THEN map
    ELSE LET timestamp ==
                 IF restampNew /\ msg.id \in Ids(map)
                 THEN MapGet(map, msg.id).timestamp
                 ELSE ensureDate(msg, clock)
         IN MapSet(map, [f \in DOMAIN msg \cup {"timestamp"} |->
                            IF f = "timestamp" THEN timestamp ELSE msg[f]])

\* the body of incoming.forEach
UpsertOne(map, msg, restampNew, clock) ==
    IF ~Has(msg, "id") THEN map
    ELSE LET timestamp ==
                 IF restampNew
                 THEN IF msg.id \in Ids(map)
                      THEN MapGet(map, msg.id).timestamp
                      ELSE clock
                 ELSE ensureDate(msg, clock)
         IN MapSet(map, [f \in DOMAIN msg \cup {"timestamp"} |->
                            IF f = "timestamp" THEN timestamp ELSE msg[f]])

RECURSIVE UpsertAll(_, _, _, _)
UpsertAll(map, incoming, restampNew, clock) ==
    IF incoming = <<>> THEN map
    ELSE UpsertAll(UpsertOne(map, Head(incoming), restampNew, clock),
                   Tail(incoming), restampNew, clock)

\* a Map whose values are read back in insertion order and never sorted
InsertionOrder(s) == s

\* Array.prototype.sort with (a, b) => taskIdA - taskIdB: a stable sort
RECURSIVE SortByTask(_)
SortByTask(s) ==
    IF s = <<>> THEN <<>>
    ELSE LET k == CHOOSE k \in { TaskKey(s[i]) : i \in DOMAIN s } :
                      \A i \in DOMAIN s : k <= TaskKey(s[i])
         IN SelectSeq(s, LAMBDA m : TaskKey(m) = k)
            \o SortByTask(SelectSeq(s, LAMBDA m : TaskKey(m) # k))

\* a sort with no slice after it
SliceNothing(s) == s

\* sortedMessages.slice(-50)
SliceLast(s) ==
    IF Len(s) <= KeepLast THEN s ELSE SubSeq(s, Len(s) - KeepLast + 1, Len(s))

upsertMessages(prev, incoming, restampNew, clock) ==
    IF incoming = <<>> THEN prev
    ELSE SliceLast(SortByTask(UpsertAll(MapOf(prev), incoming, restampNew, clock)))

-----------------------------------------------------------------------------
(* The events handleSubmit builds *)

userMessage(clock) ==
    [id |-> <<"user", clock>>, sender |-> "user", text |-> "task",
     timestamp |-> clock]

thinkingMessage(clock) ==
    [id |-> <<"thinking", clock>>, sender |-> "system", text |-> "sending",
     timestamp |-> clock, isThinking |-> TRUE]

errorMessage(clock) ==
    [id |-> <<"error", clock>>, sender |-> "system", text |-> "error",
     timestamp |-> clock, isError |-> TRUE]

IsThinking(m) == Has(m, "isThinking") /\ m.isThinking

\* a filter that keeps every event
KeepThinking(prev) == prev

\* prev.filter((msg) => !msg.isThinking)
RemoveThinking(prev) == SelectSeq(prev, LAMBDA m : ~IsThinking(m))

\* data.message_id || msg.id
NewId(data, id) == IF Has(data, "message_id") THEN data.message_id ELSE id

\* filtered.map: { ...msg, id: data.message_id || msg.id } for the optimistic
\* message, every other message as it is
\* a replace that inserts the acknowledged event when the store has no entry
\* with the temporary id
ReplaceIdOrInsert(prev, userId, data) ==
    IF userId \in Ids(prev)
    THEN [i \in DOMAIN prev |->
             IF prev[i].id = userId
             THEN [prev[i] EXCEPT !.id = NewId(data, prev[i].id)]
             ELSE prev[i]]
    ELSE Append(prev, [id |-> NewId(data, userId), sender |-> "user",
                       text |-> "task", timestamp |-> userId[2]])

\* a rename that takes the entry out and puts the renamed one last
ReplaceIdAtEnd(prev, userId, data) ==
    SelectSeq(prev, LAMBDA m : m.id # userId)
    \o [i \in 1..Len(SelectSeq(prev, LAMBDA m : m.id = userId)) |->
          [SelectSeq(prev, LAMBDA m : m.id = userId)[i]
              EXCEPT !.id = NewId(data, userId)]]

ReplaceId(prev, userId, data) ==
    [i \in DOMAIN prev |->
        IF prev[i].id = userId
        THEN [prev[i] EXCEPT !.id = NewId(data, prev[i].id)]
        ELSE prev[i]]

\* the store after the updater of handleSubmit's try block
SubmitReplace(prev, userId, data) ==
    ReplaceId(RemoveThinking(prev), userId, data)

\* a catch block that leaves the placeholder in the store
SubmitCatchKeepsThinking(prev, clock) ==
    upsertMessages(prev, <<errorMessage(clock)>>, FALSE, clock)

\* the store after handleSubmit's catch block
SubmitCatch(prev, clock) ==
    upsertMessages(RemoveThinking(prev), <<errorMessage(clock)>>, FALSE, clock)

\* the store after the two upserts handleSubmit makes before its await
SubmitInsert(prev, clock) ==
    upsertMessages(upsertMessages(prev, <<userMessage(clock)>>, FALSE, clock),
                   <<thinkingMessage(clock)>>, FALSE, clock)

\* latestTimestamp.toISOString()
toISOString(t) == <<t>>

\* the store after fetchAgentResponses has a 2xx JSON body
PollStore(prev, raw, isInitial, clock) ==
    upsertMessages(prev, Normalize(raw, clock), ~isInitial, clock)

\* a cursor that is forgotten when a response has nothing to merge
PollCursorForgets(cursor, raw, clock) ==
    LET normalized == Normalize(raw, clock)
    IN IF normalized # <<>> THEN toISOString(normalized[1].timestamp)
       ELSE Null

\* lastFetchTimeRef.current after fetchAgentResponses has a 2xx JSON body
PollCursor(cursor, raw, clock) ==
    LET normalized == Normalize(raw, clock)
    IN IF normalized # <<>> THEN toISOString(normalized[1].timestamp)
       ELSE cursor

\* a URL that has the cursor whenever one is recorded, the initial load's too
SinceAlways(isInitial) == lastFetchTimeRef

\* the `since` parameter of the URL fetchAgentResponses(isInitial) builds,
\* Null when the URL has none
Since(isInitial) ==
    IF ~isInitial /\ lastFetchTimeRef # Null THEN lastFetchTimeRef ELSE Null

\* a request of fetchAgentResponses(isInitial) awaiting its response; `stale`
\* is history: the effect's cleanup has run since the request was sent
PollRequest(isInitial) == [isInitial |-> isInitial, stale |-> FALSE]

\* the requests awaiting a response when the effect's cleanup runs
StaleAll(b) ==
    [r \in { [q EXCEPT !.stale = TRUE] : q \in BagToSet(b) } |->
        CopiesIn(r, b) + CopiesIn([r EXCEPT !.stale = FALSE], b)]

\* the user messages the backend has: the one awaiting its response and the
\* acknowledged ones in the store
Persisted ==
    (IF sub # Null THEN {sub[1].sentAt} ELSE {})
    \cup { id[2] : id \in { i \in Ids(messages) : i[1] = "msg" } }

\* the response bodies the backend may send now
Responses == RawBatches \cup { <<MsgItem(t)>> : t \in Persisted }

-----------------------------------------------------------------------------
(* The state after the component is mounted: the effect has reset the abort
   flag, issued the initial fetch and started the interval *)

Init ==
    /\ messages = <<>>
    /\ isLoading = FALSE
    /\ historyError = Null
    /\ isAuthenticated = FALSE
    /\ abortRef = FALSE
    /\ lastFetchTimeRef = Null
    /\ polls = SetToBag({PollRequest(TRUE)})
    /\ lastUrl = Null
    /\ sub = Null
    /\ now = 1
    /\ lastOp = "mount"
    /\ ackRace = Null

-----------------------------------------------------------------------------
(* Handlers.  A handler runs to its next await without interruption; the
   clock unit is the millisecond, and the response of a submission is handled
   after the clock has advanced past the time the request was sent. *)

\* history: an upsert has run after the acknowledgement that raced with a
\* poll, and `post`, the store it left, has lost the canonical id or not
Merged(h, post) ==
    IF h = Null THEN h
    ELSE <<[h[1] EXCEPT !.merged = TRUE,
                        !.evicted = (h[1].canon \notin Ids(post))]>>

\* the client's clock advances
ClockTick ==
    /\ now < MaxTime
    /\ now' = now + 1
    /\ UNCHANGED <<messages, isLoading, historyError, isAuthenticated,
                   abortRef, lastFetchTimeRef, polls, lastUrl, sub, lastOp,
                   ackRace>>

\* handlePasswordSubmit
handlePasswordSubmit(passwordInput) ==
    /\ isAuthenticated' = (isAuthenticated \/ passwordInput = "jubilee")
    /\ UNCHANGED <<messages, isLoading, historyError, abortRef,
                   lastFetchTimeRef, polls, lastUrl, sub, now, lastOp,
                   ackRace>>

\* an interval that the cleanup does not clear
IntervalNotCleared(req) ==
    /\ BagCardinality(polls) < MaxInFlight
    /\ polls' = polls (+) SetToBag({req})
    /\ lastUrl' = Since(FALSE)
    /\ UNCHANGED <<messages, isLoading, historyError, isAuthenticated,
                   abortRef, lastFetchTimeRef, sub, now, lastOp, ackRace>>

\* setInterval(() => fetchAgentResponses(false)): the request `req` is sent
IntervalTickAs(req) ==
    /\ ~abortRef
    /\ BagCardinality(polls) < MaxInFlight
    /\ polls' = polls (+) SetToBag({req})
    /\ lastUrl' = Since(FALSE)
    /\ UNCHANGED <<messages, isLoading, historyError, isAuthenticated,
                   abortRef, lastFetchTimeRef, sub, now, lastOp, ackRace>>

IntervalTick == IntervalTickAs(PollRequest(FALSE))

\* fetchAgentResponses after a JSON response with response.ok; `op` is the
\* history the step leaves in lastOp
PollSucceedsAs(req, raw, op) ==
    /\ BagIn(req, polls)
    /\ polls' = polls (-) SetToBag({req})
    /\ IF abortRef
       THEN UNCHANGED <<messages, historyError, lastFetchTimeRef, lastOp,
                        ackRace>>
       ELSE /\ messages' = PollStore(messages, raw, req.isInitial, now)
            /\ lastFetchTimeRef' = PollCursor(lastFetchTimeRef, raw, now)
            /\ historyError' = Null
            /\ lastOp' = op
            /\ ackRace' = IF Normalize(raw, now) # <<>>
                          THEN Merged(ackRace, messages') ELSE ackRace
    /\ UNCHANGED <<isLoading, isAuthenticated, abortRef, lastUrl, sub, now>>

PollSucceeds(req, raw) == PollSucceedsAs(req, raw, "pollOk")

\* the ways a poll ends in the catch block: fetch rejects, the body is not
\* JSON, the status is not 2xx
PollErrors == {"network", "nonjson", "status"}

\* a catch block that also forgets the cursor
PollFailsResetsCursor(req, error) ==
    /\ BagIn(req, polls)
    /\ polls' = polls (-) SetToBag({req})
    /\ IF abortRef
       THEN UNCHANGED <<historyError, lastOp>>
       ELSE /\ historyError' = <<"Unable to load agent responses">>
            /\ lastOp' = "pollFailed"
    /\ lastFetchTimeRef' = Null
    /\ UNCHANGED <<messages, isLoading, isAuthenticated, abortRef,
                   lastUrl, sub, now, ackRace>>

\* fetchAgentResponses when fetch rejects, the body is not JSON or the status
\* is not 2xx: the catch block
PollFails(req, error) ==
    /\ BagIn(req, polls)
    /\ polls' = polls (-) SetToBag({req})
    /\ IF abortRef
       THEN UNCHANGED <<historyError, lastOp>>
       ELSE /\ historyError' = <<"Unable to load agent responses">>
            /\ lastOp' = "pollFailed"
    /\ UNCHANGED <<messages, isLoading, isAuthenticated, abortRef,
                   lastFetchTimeRef, lastUrl, sub, now, ackRace>>

\* a handleSubmit that does not look at isLoading
handleSubmitWhileLoading(inputValue) ==
    IF ~isAuthenticated \/ inputValue = ""
    THEN UNCHANGED vars
    ELSE /\ messages' = SubmitInsert(messages, now)
         /\ isLoading' = TRUE
         /\ sub' = <<[userId |-> userMessage(now).id, sentAt |-> now,
                      stale |-> FALSE]>>
         /\ lastOp' = "submit"
         /\ ackRace' = Merged(ackRace, messages')
         /\ UNCHANGED <<historyError, isAuthenticated, abortRef,
                        lastFetchTimeRef, polls, lastUrl, now>>

\* handleSubmit up to its await
handleSubmit(inputValue) ==
    IF ~isAuthenticated \/ inputValue = "" \/ isLoading
    THEN UNCHANGED vars
    ELSE /\ messages' = SubmitInsert(messages, now)
         /\ isLoading' = TRUE
         /\ sub' = <<[userId |-> userMessage(now).id, sentAt |-> now,
                      stale |-> FALSE]>>
         /\ lastOp' = "submit"
         /\ ackRace' = Merged(ackRace, messages')
         /\ UNCHANGED <<historyError, isAuthenticated, abortRef,
                        lastFetchTimeRef, polls, lastUrl, now>>

\* handleSubmit after a JSON response: the id is replaced, then a status that
\* is not 2xx throws into the catch block
SubmitJson(t, data, ok) ==
    /\ sub # Null
    /\ t = sub[1].sentAt
    /\ now > sub[1].sentAt
    /\ LET replaced == SubmitReplace(messages, sub[1].userId, data)
       IN messages' = IF ok THEN replaced ELSE SubmitCatch(replaced, now)
    /\ isLoading' = FALSE
    /\ sub' = Null
    /\ lastOp' = IF ok THEN "ack" ELSE "failed"
    /\ ackRace' = IF /\ ok
                     /\ Has(data, "message_id")
                     /\ data.message_id \in Ids(messages)
                     /\ sub[1].userId \in Ids(messages)
                  THEN <<[userId |-> sub[1].userId, canon |-> data.message_id,
                          merged |-> FALSE, evicted |-> FALSE]>>
                  ELSE IF ok THEN ackRace ELSE Merged(ackRace, messages')
    /\ UNCHANGED <<historyError, isAuthenticated, abortRef, lastFetchTimeRef,
                   polls, lastUrl, now>>

\* handleSubmit when fetch rejects or the body is not JSON
SubmitThrows ==
    /\ sub # Null
    /\ now > sub[1].sentAt
    /\ messages' = SubmitCatch(messages, now)
    /\ isLoading' = FALSE
    /\ sub' = Null
    /\ lastOp' = "failed"
    /\ ackRace' = Merged(ackRace, messages')
    /\ UNCHANGED <<historyError, isAuthenticated, abortRef, lastFetchTimeRef,
                   polls, lastUrl, now>>

\* the effect's cleanup
Teardown ==
    /\ ~abortRef
    /\ abortRef' = TRUE
    /\ polls' = StaleAll(polls)
    /\ sub' = IF sub = Null THEN Null ELSE <<[sub[1] EXCEPT !.stale = TRUE]>>
    /\ UNCHANGED <<messages, isLoading, historyError, isAuthenticated,
                   lastFetchTimeRef, lastUrl, now, lastOp, ackRace>>

\* the effect runs again
Setup ==
    /\ abortRef
    /\ BagCardinality(polls) < MaxInFlight
    /\ abortRef' = FALSE
    /\ polls' = polls (+) SetToBag({PollRequest(TRUE)})
    /\ lastUrl' = Since(TRUE)
    /\ UNCHANGED <<messages, isLoading, historyError, isAuthenticated,
                   lastFetchTimeRef, sub, now, lastOp, ackRace>>

Next ==
    \/ ClockTick
    \/ \E passwordInput \in {"jubilee", "guess"} : handlePasswordSubmit(passwordInput)
    \/ IntervalTick
    \/ \E req \in BagToSet(polls), raw \in Responses : PollSucceeds(req, raw)
    \/ \E req \in BagToSet(polls), error \in PollErrors :
           PollFails(req, error)
    \/ \E inputValue \in {"", "task"} : handleSubmit(inputValue)
    \/ \E t \in 1..MaxTime : \E data \in SendBodies(t), ok \in BOOLEAN :
           SubmitJson(t, data, ok)
    \/ SubmitThrows

\* The component while it stays mounted
Spec == Init /\ [][Next]_vars

\* The component with the effect's cleanup and re-run
NextLifecycle ==
    \/ Next
    \/ Teardown
    \/ Setup

SpecLifecycle == Init /\ [][NextLifecycle]_vars

-----------------------------------------------------------------------------
(* The store under merges alone: upsertMessages applied to the batches of
   normalized events a poll may deliver, over four event ids of two tasks *)

UpsertItem(n) ==
    CASE n = 1 -> [id |-> SrvId(1), message |-> "a", timestamp |-> 1, task_id |-> 1]
      [] n = 2 -> [id |-> SrvId(1), message |-> "b", timestamp |-> 1, task_id |-> 1]
      [] n = 3 -> [id |-> SrvId(2), message |-> "a", timestamp |-> 2]
      [] n = 4 -> [id |-> SrvId(3), message |-> "a"]
      [] n = 5 -> [id |-> SrvId(4), message |-> "a", timestamp |-> 1, task_id |-> 1]

UpsertBatches ==
    { <<UpsertItem(n)>> : n \in 1..5 }
    \cup { b \in { <<UpsertItem(n), UpsertItem(m)>> : n, m \in 1..5 } :
               b[1].id # b[2].id }

\* fetchAgentResponses merges a response while the component is mounted
MergeOnly(raw, isInitial) ==
    /\ lastFetchTimeRef' = PollCursor(lastFetchTimeRef, raw, now)
    /\ messages' = PollStore(messages, raw, isInitial, now)
    /\ lastOp' = "pollOk"
    /\ UNCHANGED <<isLoading, historyError, isAuthenticated, abortRef, polls,
                   lastUrl, sub, now, ackRace>>

NextUpsert ==
    \/ ClockTick
    \/ \E raw \in UpsertBatches, isInitial \in BOOLEAN : MergeOnly(raw, isInitial)

SpecUpsert == Init /\ [][NextUpsert]_vars

-----------------------------------------------------------------------------
(* The poll loop of a component whose user submits nothing, with responses
   that mix items without id among the others; lastOp tells the polls whose
   response had such items from the rest *)

PollBatches ==
    RawBatches \cup { <<RawItem(1), RawItem(3)>>,
                      <<RawItem(3), RawItem(1), RawItem(2)>> }

\* the items of a response that have an id, and the others
WithId(raw) == { k \in DOMAIN raw : Has(raw[k], "id") }
Dropped(raw) == DOMAIN raw \ WithId(raw)

PollSucceedsNoted(req, raw) ==
    PollSucceedsAs(req, raw,
                   IF Dropped(raw) # {} /\ WithId(raw) # {}
                   THEN "pollDropped" ELSE "pollOk")

NextPolls ==
    \/ ClockTick
    \/ IntervalTick
    \/ \E req \in BagToSet(polls), raw \in PollBatches :
           PollSucceedsNoted(req, raw)
    \/ \E req \in BagToSet(polls), error \in PollErrors : PollFails(req, error)

SpecPolls == Init /\ [][NextPolls]_vars

-----------------------------------------------------------------------------
(* The component after its initial load has been merged, while the backend
   has no further events: the store holds what the load brought, events of
   tasks up to a full window and beyond, and the user submits *)

\* the event of task n in a response
TaskItem(n) ==
    [id |-> SrvId(n), message |-> "a", timestamp |-> 1, task_id |-> n]

\* the responses to the initial load: the events of the first k tasks, and a
\* full window of which one event has no task
LoadBatches ==
    { [i \in 1..k |-> TaskItem(i)] : k \in 0..(KeepLast + 1) }
    \cup { <<[id |-> SrvId(0), message |-> "a", timestamp |-> 1]>>
             \o [i \in 1..(KeepLast - 1) |-> TaskItem(i)] }

InitLoaded ==
    /\ \E raw \in LoadBatches :
          /\ messages = PollStore(<<>>, raw, TRUE, 1)
          /\ lastFetchTimeRef = PollCursor(Null, raw, 1)
    /\ isLoading = FALSE
    /\ historyError = Null
    /\ isAuthenticated = FALSE
    /\ abortRef = FALSE
    /\ polls = EmptyBag
    /\ lastUrl = Null
    /\ sub = Null
    /\ now = 1
    /\ lastOp = "pollOk"
    /\ ackRace = Null

NextLoaded ==
    \/ ClockTick
    \/ \E passwordInput \in {"jubilee", "guess"} : handlePasswordSubmit(passwordInput)
    \/ IntervalTick
    \/ \E req \in BagToSet(polls) : PollSucceeds(req, <<>>)
    \/ \E req \in BagToSet(polls), error \in PollErrors : PollFails(req, error)
    \/ \E inputValue \in {"", "task"} : handleSubmit(inputValue)
    \/ \E t \in 1..MaxTime : \E data \in SendBodies(t), ok \in BOOLEAN :
           SubmitJson(t, data, ok)
    \/ SubmitThrows

SpecLoaded == InitLoaded /\ [][NextLoaded]_vars

-----------------------------------------------------------------------------
(* The poll loop against the backend of GET /chat/agent-responses, which
   answers a request with the events it has persisted whose timestamp is at
   or after `since`, the most recent first.  The backend persists srv-2,
   stamped 2, at once, and srv-1, stamped 1, when the clock is 2: an event
   ingested late.  A poll may fail, but polls succeed again and again; the
   interval keeps firing and the clock keeps running. *)

\* the events the backend has persisted at time t
Ingested(t) == { RawItem(2) } \cup (IF t >= 2 THEN { RawItem(1) } ELSE {})

\* the body the backend answers at time t to a request with `since`
BackendResponse(since, t) ==
    LET Answers(item) ==
            /\ item \in Ingested(t)
            /\ since = Null \/ toISOString(item.timestamp)[1] >= since[1]
    IN (IF Answers(RawItem(2)) THEN <<RawItem(2)>> ELSE <<>>)
       \o (IF Answers(RawItem(1)) THEN <<RawItem(1)>> ELSE <<>>)

\* a request with the `since` of its URL
PollRequestSince(isInitial) ==
    [isInitial |-> isInitial, stale |-> FALSE, since |-> Since(isInitial)]

InitBackend ==
    /\ messages = <<>>
    /\ isLoading = FALSE
    /\ historyError = Null
    /\ isAuthenticated = FALSE
    /\ abortRef = FALSE
    /\ lastFetchTimeRef = Null
    /\ polls = SetToBag({PollRequestSince(TRUE)})
    /\ lastUrl = Null
    /\ sub = Null
    /\ now = 1
    /\ lastOp = "mount"
    /\ ackRace = Null

IntervalTickSince == IntervalTickAs(PollRequestSince(FALSE))

PollAnswered ==
    \E req \in BagToSet(polls) :
        PollSucceeds(req, BackendResponse(req.since, now))

NextBackend ==
    \/ ClockTick
    \/ \E passwordInput \in {"jubilee", "guess"} : handlePasswordSubmit(passwordInput)
    \/ IntervalTickSince
    \/ PollAnswered
    \/ \E req \in BagToSet(polls), error \in PollErrors : PollFails(req, error)

\* setInterval fires every 5 s for as long as the component is mounted, and
\* of the requests it sends some are answered again and again
SpecBackend ==
    /\ InitBackend
    /\ [][NextBackend]_vars
    /\ WF_vars(ClockTick)
    /\ WF_vars(IntervalTickSince)
    /\ SF_vars(PollAnswered)

-----------------------------------------------------------------------------
(* The sessions of the poll loop: the effect's cleanup and re-run around
   polls that are answered with nothing or with one event, and submissions *)

SessionBatches == { <<>>, <<RawItem(1)>> }

NextSession ==
    \/ ClockTick
    \/ \E passwordInput \in {"jubilee", "guess"} : handlePasswordSubmit(passwordInput)
    \/ IntervalTick
    \/ \E req \in BagToSet(polls), raw \in SessionBatches : PollSucceeds(req, raw)
    \/ \E req \in BagToSet(polls), error \in PollErrors :
           PollFails(req, error)
    \/ \E inputValue \in {"", "task"} : handleSubmit(inputValue)
    \/ \E t \in 1..MaxTime : \E data \in SendBodies(t), ok \in BOOLEAN :
           SubmitJson(t, data, ok)
    \/ SubmitThrows
    \/ Teardown
    \/ Setup

SpecSession == Init /\ [][NextSession]_vars

-----------------------------------------------------------------------------
(* Steps of the handlers, for the properties below *)

Count(s, id) == Cardinality({ i \in DOMAIN s : s[i].id = id })

\* a response of a poll is merged
PollStep ==
    \E req \in BagToSet(polls), raw \in Responses :
        PollSucceeds(req, raw) /\ ~abortRef

\* a poll fails
PollFailStep ==
    \E req \in BagToSet(polls), error \in PollErrors :
        PollFails(req, error) /\ ~abortRef

\* the step in which a poll's 2xx JSON response has been handled: a request
\* leaves `polls` and the try block runs to its end
PollLanded ==
    /\ ~abortRef
    /\ lastOp' = "pollOk"
    /\ BagCardinality(polls') < BagCardinality(polls)

AllSendBodies == UNION { SendBodies(t) : t \in 1..MaxTime }

\* a submission is acknowledged with the canonical id of `data`
AckStep(data) ==
    /\ sub # Null
    /\ SubmitJson(sub[1].sentAt, data, TRUE)
    /\ Has(data, "message_id")

-----------------------------------------------------------------------------
(* C1: in every reachable state no two entries of `messages` have the same
   id.  The code breaks it: handleSubmit renames the temporary entry to the
   message_id without looking for an entry that has it already. *)
C1_UniqueIds ==
    \A i, j \in DOMAIN messages : messages[i].id = messages[j].id => i = j

(* C2: an upsert leaves the timestamp of every id that is in the store
   before and after it unchanged, whatever restampNew is.  The code breaks
   it with restampNew = false: the initial load that lands after a poll
   overwrites the timestamps the poll assigned. *)
KeysKept(pre, post) ==
    \A i \in DOMAIN pre, j \in DOMAIN post :
        pre[i].id = post[j].id => pre[i].timestamp = post[j].timestamp

C2_OrderingKeyImmutable == [][PollStep => KeysKept(messages, messages')]_vars

(* C3: upsert is idempotent: for every store and batch, in either mode,
   upserting the batch a second time changes nothing.  The code breaks it
   when the first upsert evicts an event of the batch: the second upsert
   inserts it again, behind the batch's other events of the same task. *)
C3_Idempotent ==
    \A raw \in UpsertBatches, isInitial \in BOOLEAN :
        LET once == PollStore(messages, raw, isInitial, now)
        IN PollStore(once, raw, isInitial, now) = once

(* C4: the store never holds more than N events, after an upsert or after
   any other mutation of the store. *)
C4_BoundedRetention == Len(messages) <= KeepLast

\* the store is full and the upsert of a poll has evicted the optimistic
\* event of the submission that awaits its response
C4_Witness ==
    /\ Len(messages) = KeepLast
    /\ lastOp = "pollOk"
    /\ sub # Null
    /\ sub[1].userId \notin Ids(messages)

(* C5: when a submission whose temporary event is still in the store is
   acknowledged with a canonical id, the store afterwards has no event with
   the temporary id, the event at the temporary event's place has the
   canonical id and the temporary event's timestamp, and every other event
   (the placeholder apart, which is removed) is unchanged at its place. *)
C5_AckKeepsKeyAndPlace ==
    [][\A data \in AllSendBodies :
          (lastOp' = "ack" /\ AckStep(data) /\ sub[1].userId \in Ids(messages)) =>
             LET temp == sub[1].userId
                 others == RemoveThinking(messages)
                 i == CHOOSE i \in DOMAIN others : others[i].id = temp
             IN /\ temp \notin Ids(messages')
                /\ Len(messages') = Len(others)
                /\ messages'[i].id = data.message_id
                /\ messages'[i].timestamp = others[i].timestamp
                /\ \A j \in DOMAIN others \ {i} : messages'[j] = others[j]
      ]_vars

\* an acknowledgement has renamed the user's event, which has another event
\* before it or after it
C5_Witness ==
    /\ lastOp = "ack"
    /\ Len(messages) >= 2
    /\ \E i \in DOMAIN messages :
          messages[i].sender = "user" /\ messages[i].id[1] = "msg"

(* C6 as stated: after a failed submission is handled the store has no
   event with the submission's temporary id, no placeholder, and a new
   system event with isError.  The code does not remove the temporary
   event. *)
FailStep(data) ==
    /\ sub # Null
    /\ \/ SubmitThrows /\ ~Has(data, "message_id")
       \/ SubmitJson(sub[1].sentAt, data, FALSE)

C7_ExactlyOneRecord ==
    (ackRace # Null /\ ackRace[1].merged) =>
        /\ Count(messages, ackRace[1].canon) = 1
        /\ ackRace[1].userId \notin Ids(messages)

(* C7 amended: in that case the store has at most one record with the
   canonical id and none with the temporary id, and it has exactly one as
   long as no upsert has evicted it. *)
C7_AtMostOneRecord ==
    (ackRace # Null /\ ackRace[1].merged) =>
        /\ Count(messages, ackRace[1].canon) <= 1
        /\ ackRace[1].userId \notin Ids(messages)
        /\ Count(messages, ackRace[1].canon) = 1 \/ ackRace[1].evicted

\* the acknowledgement raced with a poll, an upsert has run since, and the
\* one record with the canonical id is in the store
C7_Witness ==
    /\ ackRace # Null
    /\ ackRace[1].merged
    /\ Count(messages, ackRace[1].canon) = 1

(* C8: with a submission and a poll awaiting their responses, the poll's
   response holding the submission's canonical event, the store after both
   responses is the same whichever is handled first.  The code breaks it:
   see C1. *)
C8_PollAckOrderIndependent ==
    (sub # Null /\ now > sub[1].sentAt) =>
        \A req \in BagToSet(polls), data \in SendBodies(sub[1].sentAt) :
            Has(data, "message_id") =>
                LET raw == <<MsgItem(sub[1].sentAt)>>
                    pollFirst ==
                        SubmitReplace(
                            PollStore(messages, raw, req.isInitial, now),
                            sub[1].userId, data)
                    ackFirst ==
                        PollStore(
                            SubmitReplace(messages, sub[1].userId, data),
                            raw, req.isInitial, now)
                IN pollFirst = ackFirst

(* C9: with two polls awaiting their responses, which share ids, the store
   and the cursor after both responses are the same whichever is handled
   first.  The code breaks it: the response handled last sets the cursor and
   the fields. *)
SharedIds(raw1, raw2) ==
    Ids(Normalize(raw1, now)) \cap Ids(Normalize(raw2, now)) # {}

C9_PollOrderIndependent ==
    \A req1, req2 \in BagToSet(polls) :
        (req1 # req2 \/ CopiesIn(req1, polls) >= 2) =>
            \A raw1, raw2 \in Responses :
                SharedIds(raw1, raw2) =>
                    /\ PollStore(PollStore(messages, raw1, req1.isInitial, now),
                                 raw2, req2.isInitial, now)
                       = PollStore(PollStore(messages, raw2, req2.isInitial, now),
                                   raw1, req1.isInitial, now)
                    /\ PollCursor(PollCursor(lastFetchTimeRef, raw1, now), raw2, now)
                       = PollCursor(PollCursor(lastFetchTimeRef, raw2, now), raw1, now)

(* C10: a failed poll leaves the store and the cursor unchanged and sets
   historyError; the request the next tick sends has the cursor as its
   `since`; a poll that succeeds clears historyError and leaves no id of its
   response twice in the store. *)
C10_FailedPollRecoverable ==
    [][/\ (lastOp' = "pollFailed" /\ PollFailStep) =>
             /\ messages' = messages
             /\ lastFetchTimeRef' = lastFetchTimeRef
             /\ historyError' # Null
       /\ (lastOp = "pollFailed" /\ IntervalTick) =>
             /\ lastUrl' = lastFetchTimeRef
             /\ BagCardinality(polls') = BagCardinality(polls) + 1
       /\ PollLanded =>
             /\ historyError' = Null
             /\ \/ \A i, j \in DOMAIN messages' :
                      messages'[i].id = messages'[j].id => i = j
                \/ \A req \in BagToSet(polls), raw \in Responses :
                      PollSucceeds(req, raw) =>
                          \A id \in Ids(Normalize(raw, now)) :
                              Count(messages', id) <= 1
      ]_vars

\* a poll has failed with events in the store and a cursor recorded, and the
\* next tick has sent the request that retries from that cursor
C10_Witness ==
    /\ lastOp = "pollFailed"
    /\ historyError # Null
    /\ messages # <<>>
    /\ lastFetchTimeRef # Null
    /\ lastUrl = lastFetchTimeRef
    /\ BagCardinality(polls) > 0

(* C11: the response to a request sent before the effect's cleanup ran, a
   poll's or a submission's, success or failure, changes neither the store,
   the cursor nor the error flag, also after the effect has run again.  The
   code breaks it: abortRef is one flag that the next run of the effect
   resets, and handleSubmit never reads it. *)
StaleResponseStep ==
    \/ \E req \in BagToSet(polls) :
          /\ req.stale
          /\ \/ \E raw \in Responses : PollSucceeds(req, raw)
             \/ \E error \in PollErrors : PollFails(req, error)
    \/ /\ sub # Null
       /\ sub[1].stale
       /\ \/ SubmitThrows
          \/ \E data \in SendBodies(sub[1].sentAt), ok \in BOOLEAN :
                SubmitJson(sub[1].sentAt, data, ok)

C11_StaleResponsesInert ==
    [][StaleResponseStep =>
          UNCHANGED <<messages, lastFetchTimeRef, historyError>>]_vars

(* C12: at most one request of fetchAgentResponses awaits its response at
   any time.  The code breaks it: the interval's callback sends a request
   whether or not an earlier one, the initial load included, has resolved. *)
C12_SinglePollInFlight == BagCardinality(polls) <= 1

(* C13: the cursor, which the next poll passes as `since`, is the highest
   timestamp of the events of all responses so far: after a response with
   events is handled it is not below the timestamp of any of them, and not
   below the cursor before.  The code breaks it: the cursor is the timestamp
   of the first event of the response handled last. *)
C13_CursorHighWater ==
    [][\A req \in BagToSet(polls), raw \in Responses :
          (PollSucceeds(req, raw) /\ ~abortRef /\ Normalize(raw, now) # <<>>) =>
              /\ lastFetchTimeRef' # Null
              /\ \A i \in DOMAIN Normalize(raw, now) :
                    toISOString(Normalize(raw, now)[i].timestamp)[1]
                        <= lastFetchTimeRef'[1]
              /\ lastFetchTimeRef # Null =>
                    lastFetchTimeRef[1] <= lastFetchTimeRef'[1]
      ]_vars

-----------------------------------------------------------------------------
(* The order the properties C14 to C17 state for the view: by taskId when
   both events have one and they differ, else by timestamp *)
StatedBefore(a, b) ==
    IF Has(a, "taskId") /\ Has(b, "taskId") /\ a.taskId # b.taskId
    THEN a.taskId < b.taskId
    ELSE a.timestamp < b.timestamp

\* the events of the Map when upsertMessages has run its forEach
Merging(prev, raw, isInitial, clock) ==
    UpsertAll(MapOf(prev), Normalize(raw, clock), ~isInitial, clock)

(* C14: an upsert leaves N events when it had more than N to keep, and it
   evicts no event while it keeps one that is before it in the stated order.
   The code breaks it: the view is sorted by taskId alone, an event without
   taskId first, so the slice evicts the event with the later timestamp. *)
C14_RetentionKeepsMostRecent ==
    [][\A raw \in UpsertBatches, isInitial \in BOOLEAN :
          MergeOnly(raw, isInitial) =>
              LET all == Merging(messages, raw, isInitial, now)
              IN /\ Len(messages') = IF Len(all) > KeepLast THEN KeepLast
                                     ELSE Len(all)
                 /\ \A i \in DOMAIN all, j \in DOMAIN messages' :
                       all[i].id \notin Ids(messages') =>
                           ~StatedBefore(messages'[j], all[i])
      ]_vars

(* C15: in the view an upsert leaves, two events that both have a taskId are
   in the order of their taskIds, and every other pair is in the order of
   their timestamps.  The code breaks it: the sort compares taskIds alone,
   0 for an event without one, and never reads the timestamp. *)
C15_ViewInStatedOrder ==
    \A i, j \in DOMAIN messages :
        i < j => ~StatedBefore(messages[j], messages[i])

(* C16: the view is a function of the set of stored events: two stores built
   from the same store by the same two batches in either order, when they
   hold the same events, hold them in the same sequence.  The code breaks
   it: events that tie on taskId stay in the order they entered the Map. *)
Events(s) == { s[i] : i \in DOMAIN s }

C16_ViewIgnoresInsertionOrder ==
    \A raw1, raw2 \in UpsertBatches, isInitial \in BOOLEAN :
        LET one == PollStore(PollStore(messages, raw1, isInitial, now),
                             raw2, isInitial, now)
            other == PollStore(PollStore(messages, raw2, isInitial, now),
                               raw1, isInitial, now)
        IN Events(one) = Events(other) => one = other

(* C17: when an upsert with restampNew merges a batch of an id that is in
   the store and an id that is not and has no timestamp, the stored id keeps
   its timestamp, the new event gets the client's time, and the new event is
   in the view after every event that was stored before.  The code breaks
   the last part: a new event without taskId sorts before the stored events
   that have one, and the slice may evict it at once. *)
RestampBatch(raw) ==
    /\ \E k \in DOMAIN raw : raw[k].id \in Ids(messages)
    /\ \E k \in DOMAIN raw :
          raw[k].id \notin Ids(messages) /\ ~Has(raw[k], "timestamp")

C17_RestampedEventLast ==
    [][\A raw \in UpsertBatches :
          (RestampBatch(raw) /\ MergeOnly(raw, FALSE)) =>
              /\ KeysKept(messages, messages')
              /\ \A k \in DOMAIN raw :
                    (raw[k].id \notin Ids(messages) /\ ~Has(raw[k], "timestamp")) =>
                        \E j \in DOMAIN messages' :
                            /\ messages'[j].id = raw[k].id
                            /\ messages'[j].timestamp = now
                            /\ \A i \in DOMAIN messages' :
                                  messages'[i].id \in Ids(messages) => i < j
      ]_vars

(* C18 as stated: an event whose id is not in the store and that has a
   timestamp from the server is stored with that timestamp, with restampNew
   or without.  With restampNew the code stamps every new id with the
   client's time. *)
StoredWith(post, id, t) ==
    \A j \in DOMAIN post : post[j].id = id => post[j].timestamp = t

C18_ServerTimeWins ==
    \A raw \in UpsertBatches, isInitial \in BOOLEAN :
        \A k \in DOMAIN raw :
            (raw[k].id \notin Ids(messages) /\ Has(raw[k], "timestamp")) =>
                StoredWith(PollStore(messages, raw, isInitial, now),
                           raw[k].id, raw[k].timestamp)

(* C18 amended: an event whose id is not in the store is stored, without
   restampNew, with its own timestamp, or the client's time if it has none;
   with restampNew it is stored with the client's time whether it has a
   timestamp or not. *)
C18_RestampOverridesServerTime ==
    \A raw \in UpsertBatches, isInitial \in BOOLEAN :
        \A k \in DOMAIN raw :
            raw[k].id \notin Ids(messages) =>
                StoredWith(PollStore(messages, raw, isInitial, now),
                           raw[k].id,
                           IF isInitial /\ Has(raw[k], "timestamp")
                           THEN raw[k].timestamp ELSE now)

\* the event srv-2, which the backend stamped 2, is in the store with the
\* client's time 1, at which a poll with restampNew merged it
C18_Witness ==
    /\ lastOp = "pollOk"
    /\ \E i \in DOMAIN messages :
          /\ messages[i].id = UpsertItem(3).id
          /\ messages[i].timestamp # UpsertItem(3).timestamp

(* C19: merging a batch into a store built from the empty store by earlier
   batches leaves one entry per id of the store and the batch, when these
   are at most N: an id delivered again gets no second entry. *)
DedupBatches ==
    RawBatches \cup { <<UpsertItem(n), UpsertItem(m)>> : n, m \in 1..5 }

C19_OneEntryPerId ==
    \A raw \in DedupBatches, isInitial \in BOOLEAN :
        LET post == PollStore(messages, raw, isInitial, now)
            ids == Ids(messages) \cup Ids(Normalize(raw, now))
        IN Cardinality(ids) <= KeepLast =>
              /\ Len(post) = Cardinality(ids)
              /\ Ids(post) = ids

\* a store that earlier batches have built, and a batch that delivers one of
\* its ids again together with an id it does not have
C19_Witness ==
    /\ lastOp = "pollOk"
    /\ Len(messages) = 2
    /\ \E raw \in DedupBatches :
          /\ Ids(Normalize(raw, now)) \cap Ids(messages) # {}
          /\ Ids(Normalize(raw, now)) \ Ids(messages) # {}
          /\ Len(PollStore(messages, raw, FALSE, now)) = 3

(* C20: a submission awaiting its response ends acknowledged or failed, not
   both: the step that acknowledges it puts no error event in the store, and
   the step that fails it does not give the temporary event the message_id,
   also when the response that is not 2xx has JSON with a message_id.  The
   code breaks the second part: it replaces the id before it looks at
   response.ok. *)
ErrorIds(s) == { id \in Ids(s) : id[1] = "error" }

C20_AcknowledgedOrFailed ==
    [][\A data \in AllSendBodies :
          /\ (sub # Null /\ SubmitJson(sub[1].sentAt, data, TRUE)) =>
                 /\ ErrorIds(messages') \subseteq ErrorIds(messages)
                 /\ sub' = Null
          /\ ( /\ sub # Null
               /\ SubmitJson(sub[1].sentAt, data, FALSE)
               /\ Has(data, "message_id")
               /\ data.message_id \notin Ids(messages) ) =>
                 /\ data.message_id \notin Ids(messages')
                 /\ sub' = Null
      ]_vars

(* C21: the placeholder that handleSubmit inserts is in the store only while
   the submission awaits its response: when no submission is awaiting one,
   the store has no event with isThinking, whatever polls were merged while
   it waited. *)
C21_PlaceholderOnlyInFlight ==
    sub = Null => \A i \in DOMAIN messages : ~IsThinking(messages[i])

\* a submission has had its response, an agent's event is in the store
\* beside the user's event, and no placeholder is left
C21_Witness ==
    /\ sub = Null
    /\ lastOp \in {"ack", "failed"}
    /\ \E i \in DOMAIN messages : messages[i].sender = "agent"
    /\ \E i \in DOMAIN messages : messages[i].sender = "user"
    /\ \A i \in DOMAIN messages : ~IsThinking(messages[i])

(* C22: when a response has items without id among items with one, the poll
   succeeds: every item with an id is in the store afterwards, the store has
   no event that is neither one of these nor was there before, and
   historyError is null. *)
C22_MalformedDropped ==
    [][\A req \in BagToSet(polls), raw \in PollBatches :
          ( /\ Dropped(raw) # {}
            /\ WithId(raw) # {}
            /\ PollSucceedsNoted(req, raw) ) =>
              /\ historyError' = Null
              /\ lastFetchTimeRef' # Null
              /\ \A k \in WithId(raw) : raw[k].id \in Ids(messages')
              /\ \A j \in DOMAIN messages' :
                    messages'[j].id \in
                        Ids(messages) \cup { raw[k].id : k \in WithId(raw) }
              /\ Len(messages') =
                    Cardinality(Ids(messages) \cup { raw[k].id : k \in WithId(raw) })
      ]_vars

\* the poll handled last had items without id in its response; the store has
\* the events of the other items and the error flag is clear
C22_Witness ==
    /\ lastOp = "pollDropped"
    /\ historyError = Null
    /\ Len(messages) = 2

(* C23: for an item without timestamp buildAgentMessage returns an event
   without timestamp, and it returns the same event whenever it is called on
   the same item.  The code breaks it: ensureDate gives such an item the
   time of the call. *)
C23_NormalizerInventsNoKey ==
    \A n \in 1..5 :
        LET item == UpsertItem(n)
        IN ~Has(item, "timestamp") =>
              /\ ~Has(buildAgentMessage(item, now), "timestamp")
              /\ \A t \in 1..MaxTime :
                    buildAgentMessage(item, t) = buildAgentMessage(item, now)

(* C24: when a poll's response is merged, an event whose id was in the store
   keeps its sender and every field it had.  The code breaks it: the Map
   takes the incoming event in place of the stored one. *)
C24_FieldLevelMerge ==
    [][PollLanded =>
          \A i \in DOMAIN messages, j \in DOMAIN messages' :
              messages[i].id = messages'[j].id =>
                  /\ messages'[j].sender = messages[i].sender
                  /\ DOMAIN messages[i] \subseteq DOMAIN messages'[j]
      ]_vars

(* C25: handling a failed submission puts the error event in the store and
   leaves historyError and the cursor as they were; a failed poll leaves the
   store as it was.  The code breaks the first part when the store holds N
   events that all have a taskId: the error event, which has none, sorts
   first and the slice drops it. *)
C25_FailureShownInTimeline ==
    [][/\ \A data \in AllSendBodies :
             FailStep(data) =>
                 /\ \E j \in DOMAIN messages' : messages'[j] = errorMessage(now)
                 /\ historyError' = historyError
                 /\ lastFetchTimeRef' = lastFetchTimeRef
       /\ PollFailStep => messages' = messages
      ]_vars

(* C26: when handleSubmit accepts a submission, the store it leaves holds the
   temporary event, with the client's time as timestamp, and no event but
   the placeholder is after it in the view.  The code breaks it: the event
   has no taskId and sorts before every event that has one, and a store of N
   such events loses it in the upsert that inserts it. *)
C26_SubmitVisibleAtOnce ==
    [][(isAuthenticated /\ ~isLoading /\ handleSubmit("task")) =>
          \E j \in DOMAIN messages' :
              /\ messages'[j] = userMessage(now)
              /\ \A i \in DOMAIN messages' : i > j => IsThinking(messages'[i])
      ]_vars

(* C27: the URL of the initial load has no `since`, and its response is
   merged without restampNew: an id new to the store gets the timestamp of
   the backend.  The URL of a poll the interval sends has `since` exactly
   when a cursor is recorded, and the cursor is its value; its response is
   merged with restampNew: an id new to the store gets the client's time. *)
C27_TwoModes ==
    [][/\ Since(TRUE) = Null
       /\ IntervalTick => lastUrl' = lastFetchTimeRef
       /\ \A req \in BagToSet(polls), raw \in PollBatches :
             PollSucceedsNoted(req, raw) =>
                 \A k \in WithId(raw) :
                     raw[k].id \notin Ids(messages) =>
                         StoredWith(messages', raw[k].id,
                                    IF req.isInitial THEN raw[k].timestamp
                                    ELSE now)
      ]_vars

\* a poll of the interval has been sent with the cursor as `since`, and the
\* event srv-2, stamped 2 by the backend, has the client's time 1 that the
\* merge of such a poll gave it
C27_Witness ==
    /\ lastUrl # Null
    /\ lastUrl = lastFetchTimeRef
    /\ \E i \in DOMAIN messages :
          messages[i].id = RawItem(2).id /\ messages[i].timestamp = 1

(* C28 as stated: when the acknowledgement comes after the temporary event
   was evicted, the store it leaves has neither the temporary id nor the
   message_id, and differs from the store before by the placeholder alone.
   A poll may have put the event with the message_id in the store before. *)
C28_LateAckLeavesNoCanonical ==
    [][\A data \in AllSendBodies :
          (AckStep(data) /\ sub[1].userId \notin Ids(messages)) =>
              /\ sub[1].userId \notin Ids(messages')
              /\ data.message_id \notin Ids(messages')
              /\ messages' = RemoveThinking(messages)
      ]_vars

(* C28 amended: when the acknowledgement comes after the temporary event was
   evicted, it inserts nothing: the store it leaves is the store before
   without the placeholder, so it has no temporary id, and it has the
   message_id only if a poll had put it there. *)
C28_LateAckInsertsNothing ==
    [][\A data \in AllSendBodies :
          (lastOp' = "ack" /\ AckStep(data) /\ sub[1].userId \notin Ids(messages)) =>
              /\ messages' = RemoveThinking(messages)
              /\ sub[1].userId \notin Ids(messages')
              /\ data.message_id \in Ids(messages') =>
                    data.message_id \in Ids(messages)
      ]_vars

\* an acknowledgement has been handled and the store holds agents' events
\* alone: the temporary event had been evicted, the placeholder is removed
\* and nothing took their place
C28_Witness ==
    /\ lastOp = "ack"
    /\ Len(messages) = KeepLast - 1
    /\ \A i \in DOMAIN messages : messages[i].id[1] = "srv"

(* C29: the cursor never moves backwards: no step leaves lastFetchTimeRef
   with a time before the one it had.  The code breaks it: a response whose
   first event is older than the cursor sets the cursor to that event's
   timestamp. *)
C29_CursorMonotone ==
    [][lastFetchTimeRef # Null =>
          /\ lastFetchTimeRef' # Null
          /\ lastFetchTimeRef[1] <= lastFetchTimeRef'[1]
      ]_vars

(* C30: when polls succeed again and again, the interval keeps firing and nothing
   tears the component down, every event the backend persists is merged into
   the store at some time, an event ingested late too.  The code breaks it:
   once the cursor is at the timestamp of a later event, no request asks for
   the event that is stamped before it. *)
C30_EveryEventMerged ==
    \A n \in 1..2 : <>(RawItem(n).id \in Ids(messages))

(* C31: the stored sequence is always in non-decreasing order of the key
   upsertMessages sorts by, parseInt(taskId) || 0, also after handleSubmit has
   removed the placeholder and replaced the temporary id without sorting. *)
C31_StoreSorted ==
    \A i, j \in DOMAIN messages :
        i < j => TaskKey(messages[i]) <= TaskKey(messages[j])

\* an acknowledgement has just renamed the user message in a store that also
\* holds an event of task 1, merged before the user message was inserted
C31_Witness ==
    /\ lastOp = "ack"
    /\ \E i, j \in DOMAIN messages :
          /\ messages[i].id[1] = "msg"
          /\ TaskKey(messages[j]) = 1

(* C32: an empty result is a successful no-op.  While the component is
   mounted, a poll answered 2xx whose body gives no normalized event (an empty
   or missing `messages`, or only items without id) leaves the store and the
   cursor as they are and clears historyError; and upsertMessages called with
   an empty batch returns the store it was given. *)
C32_EmptyResultNoOp ==
    /\ [](\A restampNew \in BOOLEAN :
              upsertMessages(messages, <<>>, restampNew, now) = messages)
    /\ [][\A req \in BagToSet(polls), raw \in PollBatches :
              (/\ ~abortRef
               /\ Normalize(raw, now) = <<>>
               /\ PollSucceedsNoted(req, raw))
              => /\ messages' = messages
                 /\ lastFetchTimeRef' = lastFetchTimeRef
                 /\ historyError' = Null]_vars

\* a poll has succeeded last and the store is empty: its response had nothing
\* to merge
C32_Witness ==
    /\ lastOp = "pollOk"
    /\ messages = <<>>
    /\ historyError = Null
    /\ ~abortRef

(* C33: submissions are serialized and guarded.  A submit made while
   unauthenticated, with blank input or while isLoading changes nothing and
   sends nothing; a request is sent only by an authenticated submit made while
   none is awaited; isLoading is true exactly while a request of handleSubmit
   awaits its response, and is false again after the acknowledged and after
   the failed path; so the store never holds more than one placeholder, and
   holds it only for the one awaited request. *)
C33_SubmissionsSerialized ==
    /\ [](isLoading <=> sub # Null)
    /\ [](Len(SelectSeq(messages, LAMBDA m : IsThinking(m))) <= 1)
    /\ [][/\ \A inputValue \in {"", "task"} :
                (/\ ~isAuthenticated \/ inputValue = "" \/ isLoading
                 /\ handleSubmit(inputValue))
                => UNCHANGED vars
          /\ (sub' # Null /\ sub' # sub)
                => isAuthenticated /\ ~isLoading /\ sub = Null /\ isLoading'
          /\ (sub # Null /\ sub' = Null)
                => ~isLoading' /\ lastOp' \in {"ack", "failed"}]_vars

\* a second submission awaits its response after an earlier one has failed
C33_Witness ==
    /\ isLoading
    /\ sub # Null
    /\ ErrorIds(messages) # {}
    /\ Len(SelectSeq(messages, LAMBDA m : IsThinking(m))) = 1

(* C34: teardown stops polling.  Once the cleanup has set the abort flag and
   cleared the interval, no request is issued until the effect runs again,
   and none is ever added to the requests of the session that was torn down;
   and while no response is awaited, by a poll or by a submission, the store,
   the cursor, the error flag and isLoading change only when the user submits
   a task. *)
C34_TeardownStopsPolling ==
    [][/\ BagCardinality(polls') > BagCardinality(polls) => ~abortRef'
       /\ ~(~abortRef /\ abortRef')
            => \A req \in BagToSet(polls') :
                   req.stale => CopiesIn(req, polls') <= CopiesIn(req, polls)
       /\ (polls = EmptyBag /\ sub = Null /\ sub' = Null)
            => UNCHANGED <<messages, lastFetchTimeRef, historyError,
                           isLoading>>]_vars

\* the cleanup ran while the initial load was awaited, its response has been
\* discarded since, and nothing is awaited
C34_Witness ==
    /\ abortRef
    /\ polls = EmptyBag
    /\ sub = Null
    /\ lastOp = "mount"

====
